---- MODULE Spec2Model ----
(***************************************************************************)
(* Session orchestration of the AI calling agent (src/ai_agent/agent.py)   *)
(* together with the parts of the telephony, speech, dialogue and          *)
(* knowledge adapters that the orchestrator drives.                        *)
(*                                                                         *)
(* Texts are sequences of letters, one string per letter.  The Russian     *)
(* keywords of analyze_response are written in Latin transliteration,      *)
(* letter by letter ("ch", "sh", "yu", "ya" are one letter each), so that  *)
(* the substring relations between them are kept ("kogda" contains "da",   *)
(* "ne gotov" contains "gotov").                                           *)
(*                                                                         *)
(* A coroutine is cut into steps at the points where it really suspends    *)
(* (the transcription request and the synthesis request); everything       *)
(* between two suspension points is one atomic action.                     *)
(***************************************************************************)
EXTENDS Integers, Sequences, FiniteSets, TLC

\* ------------------------------------------------------------------ bounds
MaxCalls == 2          \* calls the telephony backend starts in one run
MaxOps == 3            \* calls started, turns and greetings in one run, together
MaxInFlight == 2       \* coroutines in progress at the same time
MaxConfigTurns == 2    \* max_dialogue_turns is 0 or MaxConfigTurns
MaxWords == 2          \* utterances joined into one response to classify
MaxExecutors == 2      \* executors in the list given to call_executors_for_order
MaxWidth == 2          \* concurrent_calls is drawn from -1..MaxWidth
MaxPairOps == 2        \* turns and greetings run on the two sessions of a pair
MaxDocs == 3           \* documents a search of the knowledge base returns

\* --------------------------------------------------------------- constants
None == "None"

IN_PROGRESS == "in_progress"
ACCEPTED == "accepted"
DECLINED == "declined"
NO_ANSWER == "no_answer"
ERROR == "error"
CallResult == {ACCEPTED, DECLINED, NO_ANSWER, ERROR, IN_PROGRESS}

CallIds == 1..MaxCalls
\* 0 is an identifier the backend never hands out
SessionIds == 0..MaxCalls
TaskIds == 1..MaxInFlight

ExecutorInfo ==
    { [executor_id |-> "E1", name |-> "Ivan", phone_number |-> "P1", is_available |-> TRUE],
      [executor_id |-> "E2", name |-> "Petr", phone_number |-> "P2", is_available |-> FALSE] }

OrderInfo == { [order_id |-> "ORD-1"], [order_id |-> "ORD-2"] }

Callbacks == {"cb1", "cb2"}

\* ------------------------------------------------------------------- texts
TxtEmpty == << >>
TxtAccept == <<"D", "a">>
TxtDecline == <<"N", "e", "t">>
TxtQuestion == <<"G", "d", "e", "?">>
\* what the executor may say (typed, or as the transcription of audio)
Texts == {TxtEmpty, TxtAccept, TxtDecline, TxtQuestion}

lower(s) ==
    LET low(c) == CASE c = "D" -> "d"
                    [] c = "N" -> "n"
                    [] c = "G" -> "g"
                    [] c = "A" -> "a"
                    [] c = "E" -> "e"
                    [] c = "O" -> "o"
                    [] c = "T" -> "t"
                    [] c = "V" -> "v"
                    [] OTHER -> c
    IN  [i \in 1..Len(s) |-> low(s[i])]

\* Python's `word in text` for strings
Contains(word, text) ==
    \E i \in 1..(Len(text) - Len(word) + 1) : SubSeq(text, i, i + Len(word) - 1) = word

positive_words ==
    { <<"d","a">>, <<"s","o","g","l","a","s","e","n">>, <<"p","r","i","n","i","m","a","yu">>,
      <<"g","o","t","o","v">>, <<"h","o","r","o","sh","o">>, <<"l","a","d","n","o">>,
      <<"o","k","e","j">>, <<"k","o","n","e","ch","n","o">> }
negative_words ==
    { <<"n","e","t">>, <<"n","e"," ","m","o","g","u">>,
      <<"o","t","k","a","z","y","v","a","yu","s","'">>, <<"z","a","n","ya","t">>,
      <<"n","e"," ","g","o","t","o","v">>,
      <<"n","e"," ","i","n","t","e","r","e","s","u","e","t">> }
question_words ==
    { <<"ch","t","o">>, <<"k","a","k","o","j">>, <<"k","o","g","d","a">>, <<"g","d","e">>,
      <<"s","k","o","l","'","k","o">>, <<"p","o","ch","e","m","u">>, <<"k","a","k">> }

\* a classification in which an affirmative keyword is looked at first
analyze_response_accept_first(response) ==
    LET response_lower == lower(response)
        is_positive == \E w \in positive_words : Contains(w, response_lower)
        is_negative == \E w \in negative_words : Contains(w, response_lower)
        is_question == (\E w \in question_words : Contains(w, response_lower))
                          \/ Contains(<<"?">>, response)
    IN  IF is_positive /\ ~is_negative THEN [intent |-> "accept", confidence |-> 9]
        ELSE IF is_question THEN [intent |-> "question", confidence |-> 8]
        ELSE IF is_negative /\ ~is_positive THEN [intent |-> "decline", confidence |-> 9]
        ELSE [intent |-> "unclear", confidence |-> 5]

\* a classification in which a negative keyword alone decides a decline
analyze_response_negative_wins(response) ==
    LET response_lower == lower(response)
        is_positive == \E w \in positive_words : Contains(w, response_lower)
        is_negative == \E w \in negative_words : Contains(w, response_lower)
        is_question == (\E w \in question_words : Contains(w, response_lower))
                          \/ Contains(<<"?">>, response)
    IN  IF is_question THEN [intent |-> "question", confidence |-> 8]
        ELSE IF is_positive /\ ~is_negative THEN [intent |-> "accept", confidence |-> 9]
        ELSE IF is_negative THEN [intent |-> "decline", confidence |-> 9]
        ELSE [intent |-> "unclear", confidence |-> 5]

\* confidence is kept in tenths
analyze_response(response) ==
    LET response_lower == lower(response)
        is_positive == \E w \in positive_words : Contains(w, response_lower)
        is_negative == \E w \in negative_words : Contains(w, response_lower)
        is_question == (\E w \in question_words : Contains(w, response_lower))
                          \/ Contains(<<"?">>, response)
    IN  IF is_question THEN [intent |-> "question", confidence |-> 8]
        ELSE IF is_positive /\ ~is_negative THEN [intent |-> "accept", confidence |-> 9]
        ELSE IF is_negative /\ ~is_positive THEN [intent |-> "decline", confidence |-> 9]
        ELSE [intent |-> "unclear", confidence |-> 5]

\* ----------------------------------------------------------- reply texts
NotFoundText == <<"Sessiya ne naydena">>
AcceptedReply(name) == <<"Otlichno", name, "Zakaz zakreplyon za vami">>
DeclinedReply(name) == <<"Ponimayu", name, "Spasibo za otvet">>
BudgetReply == <<"K sozhaleniyu, nam nuzhno zavershit razgovor">>
NoChoicesReply == <<"Izvinite, proizoshla oshibka">>
TechnicalErrorReply == <<"Izvinite, proizoshla tehnicheskaya oshibka">>

\* What the dialogue backend can do with one chat request.
ChatOutcomes == {"choice", "no_choices", "exception"}

\* The backend's answer is an unknown function of the request; the model keeps
\* the number of history messages the request carried.
generate_response(context_messages, outcome) ==
    CASE outcome = "choice" ->
           [i \in 1..(Len(context_messages) + 1) |-> IF i = 1 THEN "Generated" ELSE "msg"]
      [] outcome = "no_choices" -> NoChoicesReply
      [] OTHER -> TechnicalErrorReply

GreetingText(executor_name, order) ==
    <<"Zdravstvuyte", executor_name, order.order_id, "Vy gotovy prinyat etot zakaz?">>

\* a message that is always stored as the agent's
DialogueMessage_agent(role, content) == [role |-> "assistant", content |-> content]

DialogueMessage(role, content) == [role |-> role, content |-> content]

SmsText(order) == <<"Zakaz", order.order_id, "zakreplyon za vami">>

\* ------------------------------------------------------------------- state
VARIABLES
    config,             \* Config: max_dialogue_turns, voximplant.rule_id set or not
    active_sessions,    \* AIAgent._active_sessions: dict session id -> CallSession
    on_call_completed,  \* AIAgent._on_call_completed
    active_calls,       \* VoximplantClient._active_calls: dict call id -> CallInfo
    tel_initialized,    \* VoximplantClient._initialized (and _api is set)
    tasks,              \* the coroutines suspended at an await
    sms_log,            \* the send_sms calls made, by the session being completed
    end_call_log,       \* the number of end_call calls made, by call id
    ev                  \* what the last step did and returned

vars == <<config, active_sessions, on_call_completed, active_calls, tel_initialized,
          tasks, sms_log, end_call_log, ev>>

IdleTask == [pc |-> "idle", session_id |-> 0, text |-> << >>]

\* The description of a step: the operation, the session id it was given (or
\* the call id it returns), how the step ends ("return", "raise", or suspended
\* at a request), the kind of value returned, the returned text and whether
\* audio came with it, whether the step ran _complete_session and the callback
\* that was invoked and what that callback was shown, the adapters it called,
\* the arguments of a call_executor that created a session and of a
\* set_on_call_completed, and what became of the transcription of a turn
\* ("none" when none was asked for, "failed", "ok").
NoEvent ==
    [op |-> "init", session_id |-> 0, ends |-> "return", ret |-> None, text |-> << >>,
     audio |-> FALSE, completed |-> FALSE, callback |-> None, seen |-> << >>,
     adapters |-> {}, args |-> << >>, stt |-> "none"]

\* a session record that starts with the call already counted as a turn
CallSession_counted(call_id, executor, order, knowledge_context) ==
    [call_id |-> call_id, executor |-> executor, order |-> order,
     messages |-> << >>, knowledge_context |-> knowledge_context,
     result |-> IN_PROGRESS, turn_count |-> 1]

\* CallSession as call_executor constructs it
CallSession(call_id, executor, order, knowledge_context) ==
    [call_id |-> call_id, executor |-> executor, order |-> order,
     messages |-> << >>, knowledge_context |-> knowledge_context,
     result |-> IN_PROGRESS, turn_count |-> 0]

CallInfo(call_id, executor) ==
    [call_id |-> call_id, phone_number |-> executor.phone_number,
     executor_id |-> executor.executor_id, status |-> "initiated", result |-> None]

Init ==
    /\ config \in [max_dialogue_turns : {0, MaxConfigTurns}, rule_id : BOOLEAN]
    /\ active_sessions = [s \in {} |-> None]
    /\ on_call_completed = None
    /\ active_calls = [s \in {} |-> None]
    /\ tel_initialized = FALSE
    /\ tasks = [t \in TaskIds |-> IdleTask]
    /\ sms_log = [s \in {} |-> << >>]
    /\ end_call_log = [s \in {} |-> 0]
    /\ ev = NoEvent

\* -------------------------------------------------------------- helpers
\* dict[key] = value
Put(dict, key, value) == [k \in DOMAIN dict \cup {key} |-> IF k = key THEN value ELSE dict[k]]

\* the keys of the session dict: _active_sessions.get(id) is not None
Known == DOMAIN active_sessions

\* the session ids the operations are tried with: every known one and one that
\* was never handed out
TriedIds == Known \cup {0}

\* the identifier the telephony backend hands out next: the backend's session
\* ids are taken to be distinct from one call to the next
NextCallId == Cardinality(DOMAIN active_calls) + 1

RECURSIVE SumTurns(_)
SumTurns(S) ==
    IF S = {} THEN 0
    ELSE LET s == CHOOSE x \in S : TRUE
         IN  active_sessions[s].turn_count + SumTurns(S \ {s})

\* turns already run plus turns waiting for their transcription
TurnsUsed == SumTurns(Known) + Cardinality({t \in TaskIds : tasks[t].pc = "stt"})

IsGreeting(m) == m.role = "assistant" /\ Len(m.content) > 0 /\ m.content[1] = "Zdravstvuyte"

GreetingsIn(messages) == Cardinality({i \in 1..Len(messages) : IsGreeting(messages[i])})

RECURSIVE SumGreetings(_)
SumGreetings(S) ==
    IF S = {} THEN 0
    ELSE LET s == CHOOSE x \in S : TRUE
         IN  GreetingsIn(active_sessions[s].messages) + SumGreetings(S \ {s})

\* the operations of the run so far that changed a session: sessions created,
\* turns and greetings
OpsUsed == Cardinality(Known) + TurnsUsed + SumGreetings(Known)

\* the slot a coroutine takes when it starts
FreeTask(t) == tasks[t].pc = "idle" /\ \A u \in TaskIds : u < t => tasks[u].pc # "idle"

\* what an initialisation attempt can do: nothing is attempted once initialised
InitOutcomes(initialized) == IF initialized THEN {TRUE} ELSE BOOLEAN

\* ------------------------------------------------- set_on_call_completed
\* a registration that keeps the callback registered first
SetOnCallCompleted_first_wins(callback) ==
    /\ on_call_completed' = IF on_call_completed = None THEN callback ELSE on_call_completed
    /\ ev' = [NoEvent EXCEPT !.op = "set_on_call_completed", !.args = <<callback>>]
    /\ UNCHANGED <<config, active_sessions, active_calls, tel_initialized, tasks, sms_log,
                   end_call_log>>

SetOnCallCompleted(callback) ==
    /\ on_call_completed' = callback
    /\ ev' = [NoEvent EXCEPT !.op = "set_on_call_completed", !.args = <<callback>>]
    /\ UNCHANGED <<config, active_sessions, active_calls, tel_initialized, tasks, sms_log,
                   end_call_log>>

\* ------------------------------------------------------- knowledge adapter
\* get_context_for_query as the orchestrator sees it: the text of the documents
\* found, or the empty string when the client could not be initialised, the
\* search failed or nothing was found.
get_context_for_query(found) == IF found THEN <<"ctx">> ELSE << >>

\* ------------------------------------------------------- telephony adapter
\* VoximplantClient._initialize
tel_initialize(initialized, ok) == initialized \/ ok

\* a start_call that does not look at the rule id
start_call_any_rule(initialized, executor, backend_ok) ==
    IF ~initialized THEN {}
    ELSE IF ~backend_ok \/ NextCallId > MaxCalls \/ OpsUsed >= MaxOps THEN {}
    ELSE {CallInfo(NextCallId, executor)}

\* VoximplantClient.start_call on the call table `calls`, when `ops` operations
\* of the run are used up: the set holding the call record it returns, empty
\* when it returns None
start_call_in(calls, ops, initialized, executor, backend_ok) ==
    LET call_id == Cardinality(DOMAIN calls) + 1
    IN  IF ~initialized THEN {}
        ELSE IF ~config.rule_id THEN {}
        ELSE IF ~backend_ok \/ call_id > MaxCalls \/ ops >= MaxOps THEN {}
        ELSE {CallInfo(call_id, executor)}

\* VoximplantClient.start_call on the current call table
start_call(initialized, executor, backend_ok) ==
    start_call_in(active_calls, OpsUsed, initialized, executor, backend_ok)

\* an end_call that does not record the result
end_call_untagged(calls, call_id, result) ==
    IF call_id \in DOMAIN calls
    THEN [calls EXCEPT ![call_id].status = "ended"]
    ELSE calls

\* an end_call that reopens a record it finds ended
end_call_reopen(calls, call_id, result) ==
    IF call_id \in DOMAIN calls
    THEN [calls EXCEPT ![call_id].status =
                          IF @ = "ended" THEN "connected" ELSE "ended",
                       ![call_id].result = result]
    ELSE calls

\* VoximplantClient.end_call
end_call(calls, call_id, result) ==
    IF call_id \in DOMAIN calls
    THEN [calls EXCEPT ![call_id].status = "ended", ![call_id].result = result]
    ELSE calls

\* ------------------------------------------------------------ call_executor
CallExecutor(executor, order) ==
    \E tel_ok \in InitOutcomes(tel_initialized), backend_ok \in BOOLEAN :
        LET tel1 == tel_initialize(tel_initialized, tel_ok)
            started == start_call(tel1, executor, backend_ok)
            call_info == CHOOSE c \in started : TRUE
            e == [NoEvent EXCEPT !.op = "call_executor",
                                 !.adapters = {"knowledge", "telephony"}]
        IN  /\ tel_initialized' = tel1
            /\ IF started = {}
               THEN /\ UNCHANGED <<active_sessions, active_calls, sms_log, end_call_log>>
                    /\ ev' = e
               ELSE /\ active_calls' = Put(active_calls, call_info.call_id, call_info)
                    /\ \E kb_found \in BOOLEAN :
                         active_sessions' =
                            Put(active_sessions, call_info.call_id,
                                CallSession(call_info.call_id, executor, order,
                                            get_context_for_query(kb_found)))
                    /\ sms_log' = Put(sms_log, call_info.call_id, << >>)
                    /\ end_call_log' = Put(end_call_log, call_info.call_id, 0)
                    /\ ev' = [e EXCEPT !.ret = "call_id", !.session_id = call_info.call_id,
                                       !.args = <<executor, order>>]
            /\ UNCHANGED <<config, on_call_completed, tasks>>

\* ---------------------------------------------------------- speech adapter
\* speech_to_text returns None at once when there is no speech client, and
\* otherwise suspends on the transcription request; text_to_speech returns None
\* at once when the request cannot be built, and otherwise suspends on it.
SpeechOutcomes == {"fail", "suspend"}

\* --------------------------------------------------------- one dialogue turn
\* a budget that is only enforced when it is positive
decide_zero_unlimited(intent, turn_count) ==
    IF intent = "accept" THEN "accept"
    ELSE IF intent = "decline" THEN "decline"
    ELSE IF config.max_dialogue_turns > 0 /\ turn_count >= config.max_dialogue_turns
         THEN "budget"
    ELSE "continue"

\* the budget looked at before the intent
decide_budget_first(intent, turn_count) ==
    IF turn_count >= config.max_dialogue_turns THEN "budget"
    ELSE IF intent = "accept" THEN "accept"
    ELSE IF intent = "decline" THEN "decline"
    ELSE "continue"

\* The if / elif chain of process_executor_response: the branch taken for the
\* classified intent and the turn counter after its increment.
decide(intent, turn_count) ==
    IF intent = "accept" THEN "accept"
    ELSE IF intent = "decline" THEN "decline"
    ELSE IF turn_count >= config.max_dialogue_turns THEN "budget"
    ELSE "continue"

\* a counter that stops at the budget
count_turn_capped(session) ==
    IF session.turn_count >= config.max_dialogue_turns
    THEN session.turn_count ELSE session.turn_count + 1

\* session.turn_count += 1
count_turn(session) == session.turn_count + 1

\* a turn that keeps only its own two messages in the history
run_turn_window(session, text_response, chat_outcome) ==
    LET messages1 == Append(session.messages, DialogueMessage("user", text_response))
        turn_count1 == count_turn(session)
        analysis == analyze_response(text_response)
        branch == decide(analysis.intent, turn_count1)
        result1 == IF branch = "accept" THEN ACCEPTED
                   ELSE IF branch \in {"decline", "budget"} THEN DECLINED
                   ELSE session.result
        response_text ==
                   IF branch = "accept" THEN AcceptedReply(session.executor.name)
                   ELSE IF branch = "decline" THEN DeclinedReply(session.executor.name)
                   ELSE IF branch = "budget" THEN BudgetReply
                   ELSE generate_response(messages1, chat_outcome)
    IN  [session |-> [session EXCEPT
                         !.messages = <<DialogueMessage("user", text_response),
                                        DialogueMessage("assistant", response_text)>>,
                         !.turn_count = turn_count1,
                         !.result = result1],
         response_text |-> response_text,
         intent |-> analysis.intent]

\* process_executor_response from the append of the executor's message to the
\* append of the agent's reply: the session after the turn, the reply and the
\* classified intent.
run_turn(session, text_response, chat_outcome) ==
    LET messages1 == Append(session.messages, DialogueMessage("user", text_response))
        turn_count1 == count_turn(session)
        analysis == analyze_response(text_response)
        branch == decide(analysis.intent, turn_count1)
        result1 == IF branch = "accept" THEN ACCEPTED
                   ELSE IF branch \in {"decline", "budget"} THEN DECLINED
                   ELSE session.result
        response_text ==
                   IF branch = "accept" THEN AcceptedReply(session.executor.name)
                   ELSE IF branch = "decline" THEN DeclinedReply(session.executor.name)
                   ELSE IF branch = "budget" THEN BudgetReply
                   ELSE generate_response(messages1, chat_outcome)
    IN  [session |-> [session EXCEPT
                         !.messages = Append(messages1,
                                             DialogueMessage("assistant", response_text)),
                         !.turn_count = turn_count1,
                         !.result = result1],
         response_text |-> response_text,
         intent |-> analysis.intent]

\* whether the turn reaches the dialogue backend (the last branch of the policy)
Generates(session, text_response) ==
    decide(analyze_response(text_response).intent, count_turn(session)) = "continue"

\* a callback that is shown the call table as it was before end_call
callback_view_early(calls, session, sms) ==
    [result |-> session.result,
     status |-> active_calls[session.call_id].status,
     call_result |-> active_calls[session.call_id].result,
     sms |-> Len(sms)]

\* What the completion callback is shown when it is invoked: the session's
\* result, the session's call record in the call table `calls`, and the
\* number of SMS attempts `sms` made for the session so far.
callback_view(calls, session, sms) ==
    [result |-> session.result,
     status |-> calls[session.call_id].status,
     call_result |-> calls[session.call_id].result,
     sms |-> Len(sms)]

\* The tail of process_executor_response, after the synthesis request is over:
\* the completion check, _complete_session, and the return.  `sessions` is the
\* session dict at that moment, `e` the description of the step so far.
Finish(sessions, session_id, response_text, audio, e) ==
    LET session == sessions[session_id]
        completes == session.result # IN_PROGRESS
        calls_cb == completes /\ on_call_completed # None
        calls1 == IF completes
                  THEN end_call(active_calls, session_id, session.result)
                  ELSE active_calls
    IN  \E cb_raises \in (IF calls_cb THEN BOOLEAN ELSE {FALSE}) :
          LET sends == completes /\ ~cb_raises /\ session.result = ACCEPTED
          IN  /\ active_calls' = calls1
              /\ end_call_log' = IF completes
                                 THEN [end_call_log EXCEPT ![session_id] = @ + 1]
                                 ELSE end_call_log
              /\ sms_log' = IF sends
                            THEN [sms_log EXCEPT ![session_id] =
                                     Append(@, [phone_number |-> session.executor.phone_number,
                                                message |-> SmsText(session.order)])]
                            ELSE sms_log
              /\ \E sms_tel_ok \in (IF sends THEN InitOutcomes(tel_initialized) ELSE {TRUE}) :
                    tel_initialized' = IF sends
                                       THEN tel_initialize(tel_initialized, sms_tel_ok)
                                       ELSE tel_initialized
              /\ ev' = [e EXCEPT !.ends = IF cb_raises THEN "raise" ELSE "return",
                                 !.ret = IF cb_raises THEN None ELSE "reply",
                                 !.text = IF cb_raises THEN << >> ELSE response_text,
                                 !.audio = ~cb_raises /\ audio,
                                 !.completed = completes,
                                 !.callback = IF calls_cb THEN on_call_completed ELSE None,
                                 !.seen = IF calls_cb
                                          THEN <<callback_view(calls1, session,
                                                               sms_log[session_id])>>
                                          ELSE << >>,
                                 !.adapters = e.adapters \cup
                                                (IF completes THEN {"telephony"} ELSE {})]

ProcessEvent(session_id) ==
    [NoEvent EXCEPT !.op = "process_executor_response", !.session_id = session_id]

\* a turn whose counter is written to every session of the mapping
update_session_shared_counter(sessions, session_id, session) ==
    [s \in DOMAIN sessions |->
        IF s = session_id THEN session
        ELSE [sessions[s] EXCEPT !.turn_count = session.turn_count]]

\* The session object of the mapping is mutated in place: the mapping after a
\* turn on session_id left that session as `session`.
update_session(sessions, session_id, session) ==
    [sessions EXCEPT ![session_id] = session]

\* The middle of process_executor_response: the turn, then the synthesis
\* request, which either fails at once or suspends.
Turn(t, session_id, text_response, e) ==
    \E chat_outcome \in (IF Generates(active_sessions[session_id], text_response)
                         THEN ChatOutcomes ELSE {"choice"}),
       tts \in SpeechOutcomes :
        LET r == run_turn(active_sessions[session_id], text_response, chat_outcome)
            sessions1 == update_session(active_sessions, session_id, r.session)
            e1 == [e EXCEPT !.adapters = e.adapters \cup {"dialogue", "speech"}]
        IN  /\ active_sessions' = sessions1
            /\ IF tts = "fail"
               THEN /\ tasks' = [tasks EXCEPT ![t] = IdleTask]
                    /\ Finish(sessions1, session_id, r.response_text, FALSE, e1)
               ELSE /\ tasks' = [tasks EXCEPT ![t] = [pc |-> "tts_response",
                                                      session_id |-> session_id,
                                                      text |-> r.response_text]]
                    /\ ev' = [e1 EXCEPT !.ends = "suspend_tts", !.text = r.response_text]
                    /\ UNCHANGED <<active_calls, tel_initialized, sms_log, end_call_log>>

\* ------------------------------------------------ process_executor_response
\* an optional argument: << >> stands for None, <<x>> for the value x
NoArg == << >>
Audio == <<"audio">>
\* the argument pairs (audio_data, text_response) tried: nothing, audio only,
\* each text only, and audio together with a text
Inputs ==
    {<<NoArg, NoArg>>, <<Audio, NoArg>>, <<Audio, <<TxtAccept>>>>}
       \cup {<<NoArg, <<x>>>> : x \in Texts}

\* a transcription that failed is taken as a refusal
text_or_empty_refusal(text_response) ==
    IF text_response = NoArg THEN TxtDecline ELSE text_response[1]

\* if text_response is None: text_response = ""
text_or_empty(text_response) ==
    IF text_response = NoArg THEN TxtEmpty ELSE text_response[1]

\* From the call to the first suspension point (or to the return when nothing
\* suspends), in a run of at most max_ops operations.
ProcessExecutorResponseWithin(max_ops, session_id, audio_data, text_response) ==
    LET e == ProcessEvent(session_id)
        transcribes == audio_data # NoArg /\ text_response = NoArg
    IN  IF session_id \notin Known
        THEN /\ ev' = [e EXCEPT !.ret = "reply", !.text = NotFoundText]
             /\ UNCHANGED <<config, active_sessions, on_call_completed, active_calls,
                            tel_initialized, tasks, sms_log, end_call_log>>
        ELSE /\ OpsUsed < max_ops
             /\ \E t \in TaskIds :
                  /\ FreeTask(t)
                  /\ \E stt \in (IF transcribes THEN SpeechOutcomes ELSE {"fail"}) :
                       IF transcribes /\ stt = "suspend"
                       THEN \* the transcription request is sent
                            /\ tasks' = [tasks EXCEPT ![t] = [pc |-> "stt",
                                                              session_id |-> session_id,
                                                              text |-> << >>]]
                            /\ ev' = [e EXCEPT !.ends = "suspend_stt",
                                               !.adapters = {"speech"}]
                            /\ UNCHANGED <<active_sessions, active_calls, tel_initialized,
                                           sms_log, end_call_log>>
                       ELSE \* text given, nothing given, or no speech client
                            Turn(t, session_id, text_or_empty(text_response),
                                 [e EXCEPT !.adapters =
                                             IF transcribes THEN {"speech"} ELSE {},
                                           !.stt =
                                             IF transcribes THEN "failed" ELSE "none"])
             /\ UNCHANGED <<config, on_call_completed>>

\* process_executor_response, from the call to its first suspension point
ProcessExecutorResponse(session_id, audio_data, text_response) ==
    ProcessExecutorResponseWithin(MaxOps, session_id, audio_data, text_response)

\* what a transcription request gives: << >> for None (failed), else <<text>>
SttOutcomes == {NoArg} \cup {<<x>> : x \in Texts}

\* The transcription request is over.
SttResume(t, transcription) ==
    /\ tasks[t].pc = "stt"
    /\ Turn(t, tasks[t].session_id, text_or_empty(transcription),
            [ProcessEvent(tasks[t].session_id) EXCEPT
                !.adapters = {"speech"},
                !.stt = IF transcription = NoArg THEN "failed" ELSE "ok"])
    /\ UNCHANGED <<config, on_call_completed>>

\* The synthesis request of a reply is over: audio or None.
TtsResponseResume(t, audio_ok) ==
    /\ tasks[t].pc = "tts_response"
    /\ tasks' = [tasks EXCEPT ![t] = IdleTask]
    /\ Finish(active_sessions, tasks[t].session_id, tasks[t].text, audio_ok,
              [ProcessEvent(tasks[t].session_id) EXCEPT !.adapters = {"speech"}])
    /\ UNCHANGED <<config, active_sessions, on_call_completed>>

\* ------------------------------------------------ generate_initial_greeting
GreetingEvent(session_id) ==
    [NoEvent EXCEPT !.op = "generate_initial_greeting", !.session_id = session_id]

\* a greeting that is counted as a dialogue turn
Greet_counted(session_id) ==
    LET session == active_sessions[session_id]
        greeting_text == GreetingText(session.executor.name, session.order)
        e == [GreetingEvent(session_id) EXCEPT !.text = greeting_text,
                                               !.adapters = {"dialogue", "speech"}]
    IN  /\ OpsUsed < MaxOps
        /\ active_sessions' =
              [active_sessions EXCEPT ![session_id].messages =
                  Append(@, DialogueMessage("assistant", greeting_text)),
                                      ![session_id].turn_count = @ + 1]
        /\ \E t \in TaskIds, tts \in SpeechOutcomes :
             /\ FreeTask(t)
             /\ IF tts = "fail"
                THEN /\ tasks' = tasks
                     /\ ev' = [e EXCEPT !.ret = "reply"]
                ELSE /\ tasks' = [tasks EXCEPT ![t] = [pc |-> "tts_greeting",
                                                       session_id |-> session_id,
                                                       text |-> greeting_text]]
                     /\ ev' = [e EXCEPT !.ends = "suspend_tts"]
        /\ UNCHANGED <<config, on_call_completed, active_calls, tel_initialized,
                       sms_log, end_call_log>>

\* generate_initial_greeting on a session of the mapping: the greeting is
\* appended and its synthesis either fails at once or suspends; in a run of at
\* most max_ops operations.
GreetWithin(max_ops, session_id) ==
    LET session == active_sessions[session_id]
        greeting_text == GreetingText(session.executor.name, session.order)
        e == [GreetingEvent(session_id) EXCEPT !.text = greeting_text,
                                               !.adapters = {"dialogue", "speech"}]
    IN  /\ OpsUsed < max_ops
        /\ active_sessions' =
              [active_sessions EXCEPT ![session_id].messages =
                  Append(@, DialogueMessage("assistant", greeting_text))]
        /\ \E t \in TaskIds, tts \in SpeechOutcomes :
             /\ FreeTask(t)
             /\ IF tts = "fail"
                THEN /\ tasks' = tasks
                     /\ ev' = [e EXCEPT !.ret = "reply"]
                ELSE /\ tasks' = [tasks EXCEPT ![t] = [pc |-> "tts_greeting",
                                                       session_id |-> session_id,
                                                       text |-> greeting_text]]
                     /\ ev' = [e EXCEPT !.ends = "suspend_tts"]
        /\ UNCHANGED <<config, on_call_completed, active_calls, tel_initialized,
                       sms_log, end_call_log>>

\* generate_initial_greeting on a session of the mapping
Greet(session_id) == GreetWithin(MaxOps, session_id)

\* a greeting that hands the not-found text to the speech adapter
GenerateInitialGreeting_spoken(session_id) ==
    IF session_id \notin Known
    THEN /\ ev' = [GreetingEvent(session_id) EXCEPT !.ret = "reply", !.text = NotFoundText,
                                                    !.adapters = {"speech"}]
         /\ UNCHANGED <<config, active_sessions, on_call_completed, active_calls,
                        tel_initialized, tasks, sms_log, end_call_log>>
    ELSE Greet(session_id)

GenerateInitialGreeting(session_id) ==
    IF session_id \notin Known
    THEN /\ ev' = [GreetingEvent(session_id) EXCEPT !.ret = "reply", !.text = NotFoundText]
         /\ UNCHANGED <<config, active_sessions, on_call_completed, active_calls,
                        tel_initialized, tasks, sms_log, end_call_log>>
    ELSE Greet(session_id)

\* The synthesis request of a greeting is over: audio or None.
TtsGreetingResume(t, audio_ok) ==
    /\ tasks[t].pc = "tts_greeting"
    /\ tasks' = [tasks EXCEPT ![t] = IdleTask]
    /\ ev' = [GreetingEvent(tasks[t].session_id) EXCEPT
                 !.ret = "reply", !.text = tasks[t].text, !.audio = audio_ok,
                 !.adapters = {"speech"}]
    /\ UNCHANGED <<config, active_sessions, on_call_completed, active_calls, tel_initialized,
                   sms_log, end_call_log>>

\* --------------------------------------------------------------------- Next
Next ==
    \/ \E callback \in Callbacks : SetOnCallCompleted(callback)
    \/ \E executor \in ExecutorInfo, order \in OrderInfo : CallExecutor(executor, order)
    \/ \E session_id \in TriedIds, input \in Inputs :
          ProcessExecutorResponse(session_id, input[1], input[2])
    \/ \E t \in TaskIds, transcription \in SttOutcomes : SttResume(t, transcription)
    \/ \E t \in TaskIds, audio_ok \in BOOLEAN : TtsResponseResume(t, audio_ok)
    \/ \E session_id \in TriedIds : GenerateInitialGreeting(session_id)
    \/ \E t \in TaskIds, audio_ok \in BOOLEAN : TtsGreetingResume(t, audio_ok)

Spec == Init /\ [][Next]_vars

\* =================================================================== claims
Session(s) == active_sessions[s]
Terminal(s) == Session(s).result # IN_PROGRESS

\* a coroutine of process_executor_response on s is suspended
TurnPending(s) ==
    \E t \in TaskIds : tasks[t].pc \in {"stt", "tts_response"} /\ tasks[t].session_id = s

\* this step ran a dialogue turn on s: it appended an executor-side message
TurnStep(s) ==
    /\ s \in Known
    /\ Len(active_sessions'[s].messages) > Len(Session(s).messages)
    /\ active_sessions'[s].messages[Len(Session(s).messages) + 1].role = "user"

\* the text the executor said in the turn this step ran on s
TurnInput(s) == active_sessions'[s].messages[Len(Session(s).messages) + 1].content

\* C1: a session's result starts at in-progress and changes at most once: once
\* it is terminal, no later operation changes it to a different value.
C1_ResultChangesAtMostOnce ==
    [][ /\ \A s \in Known : Terminal(s) => active_sessions'[s].result = Session(s).result
        /\ \A s \in DOMAIN active_sessions' \ Known :
              active_sessions'[s].result = IN_PROGRESS ]_vars

\* C2: once a session's result is terminal, no later process_executor_response
\* or generate_initial_greeting changes its message history or turn counter.
C2_NoTurnAfterTerminal ==
    [][ \A s \in Known :
          Terminal(s) => /\ active_sessions'[s].messages = Session(s).messages
                         /\ active_sessions'[s].turn_count = Session(s).turn_count ]_vars

\* C3: session completion is invoked exactly once per session, only by the
\* turn during which the session became terminal, never for a session that is
\* in progress.
C3_CompletionExactlyOnce ==
    \A s \in Known :
        /\ end_call_log[s] <= 1
        /\ end_call_log[s] >= 1 => Terminal(s)
        /\ (Terminal(s) /\ ~TurnPending(s)) => end_call_log[s] >= 1

\* C4: a confirmation SMS is attempted only for a session whose result is
\* accepted, goes to that session's executor, and is attempted at most once per
\* session.
C4_SmsOnlyAcceptedOnce ==
    [][ \A s \in Known :
          Len(sms_log'[s]) > Len(sms_log[s]) =>
             /\ active_sessions'[s].result = ACCEPTED
             /\ Len(sms_log'[s]) = 1
             /\ sms_log'[s][1].phone_number = Session(s).executor.phone_number ]_vars

C6_BudgetForcesDeclined ==
    [][ \A s \in Known :
          (TurnStep(s) /\ ~Terminal(s)
              /\ Session(s).turn_count = config.max_dialogue_turns) =>
             active_sessions'[s].result = DECLINED ]_vars

\* C6 amended: a turn on an in-progress session whose counter, after the
\* turn's increment, is at or above the maximum ends the session: accepted
\* when its intent is accept, declined for every other intent.
C6_BudgetEndsSession ==
    [][ \A s \in Known :
          (TurnStep(s) /\ ~Terminal(s)
              /\ Session(s).turn_count + 1 >= config.max_dialogue_turns) =>
             active_sessions'[s].result =
                IF analyze_response(TurnInput(s)).intent = "accept"
                THEN ACCEPTED ELSE DECLINED ]_vars

\* C6 witness: a session created with its counter already at the maximum (0)
\* whose first turn, a question, was forced to declined.
C6_Witness ==
    \E s \in Known :
        /\ config.max_dialogue_turns = 0
        /\ Session(s).turn_count = 1
        /\ Session(s).messages[1].content = TxtQuestion
        /\ Session(s).result = DECLINED

\* this step resumed a process_executor_response after its synthesis request
TtsResumed == \E t \in TaskIds : tasks[t].pc = "tts_response" /\ tasks'[t].pc = "idle"

\* C7: every process_executor_response on a known session increments that
\* session's turn counter by exactly one, on every branch and for every kind
\* of input, and nothing else changes a turn counter.
C7_TurnCounter ==
    [][ /\ \A s \in Known :
              active_sessions'[s].turn_count =
                 Session(s).turn_count + (IF TurnStep(s) THEN 1 ELSE 0)
        /\ \A s \in Known : TurnStep(s) => ev'.op = "process_executor_response"
        /\ (ev'.op = "process_executor_response" /\ ev'.session_id \in Known
               /\ ev'.ends # "suspend_stt" /\ ~TtsResumed) => TurnStep(ev'.session_id) ]_vars

\* C7 witness: a session counted two turns, the first with no input at all
\* (continue branch), the second an acceptance.
C7_Witness ==
    \E s \in Known :
        /\ Session(s).turn_count = 2
        /\ Session(s).messages[1].content = TxtEmpty
        /\ Session(s).messages[3].content = TxtAccept
        /\ Session(s).result = ACCEPTED

\* C8: when start_call returns no call record (API not initialised, rule id
\* not configured, backend error) call_executor returns None, the session
\* mapping is unchanged and the call table gains no entry.
C8_FailedStartKeepsState ==
    [][ ev'.op = "call_executor" =>
          /\ (~config.rule_id \/ ~tel_initialized') => ev'.ret = None
          /\ DOMAIN active_calls' = DOMAIN active_calls => ev'.ret = None
          /\ ev'.ret = None => UNCHANGED <<active_sessions, active_calls>> ]_vars

\* C8 witness: call_executor has just failed on a backend error while a
\* session exists.
C8_Witness ==
    /\ ev.op = "call_executor" /\ ev.ret = None
    /\ tel_initialized /\ config.rule_id
    /\ Known # {}

\* C9: when start_call succeeds call_executor returns the call id and the
\* mapping holds under it a new session: in progress, counter 0, empty
\* history, the given executor and order; the knowledge context may be empty.
C9_StartCreatesSession ==
    [][ (ev'.op = "call_executor" /\ DOMAIN active_calls' # DOMAIN active_calls) =>
          LET id == ev'.session_id
          IN  /\ ev'.ret = "call_id"
              /\ DOMAIN active_calls' = DOMAIN active_calls \cup {id}
              /\ id \notin Known
              /\ DOMAIN active_sessions' = Known \cup {id}
              /\ \A s \in Known : active_sessions'[s] = Session(s)
              /\ active_sessions'[id].result = IN_PROGRESS
              /\ active_sessions'[id].turn_count = 0
              /\ active_sessions'[id].messages = << >>
              /\ active_sessions'[id].executor = ev'.args[1]
              /\ active_sessions'[id].order = ev'.args[2]
              /\ active_sessions'[id].call_id = id
              /\ active_sessions'[id].knowledge_context \in {<< >>, <<"ctx">>} ]_vars

\* C9 witness: a session was just created although knowledge retrieval gave
\* nothing.
C9_Witness ==
    /\ ev.op = "call_executor" /\ ev.ret = "call_id"
    /\ Session(ev.session_id).knowledge_context = << >>
    /\ Session(ev.session_id).executor.executor_id = "E2"
    /\ Session(ev.session_id).order.order_id = "ORD-2"

\* C10: for a session id that is not in the mapping, process_executor_response
\* and generate_initial_greeting return the not-found text with no audio and
\* change nothing, and call no speech, telephony or dialogue adapter.
C10_UnknownSessionNoEffect ==
    [][ ( /\ ev'.op \in {"process_executor_response", "generate_initial_greeting"}
          /\ ev'.session_id \notin Known ) =>
             /\ ev'.ends = "return" /\ ev'.ret = "reply"
             /\ ev'.text = NotFoundText /\ ~ev'.audio
             /\ ev'.adapters = {} /\ ~ev'.completed
             /\ UNCHANGED <<config, active_sessions, on_call_completed, active_calls,
                            tel_initialized, tasks, sms_log, end_call_log>> ]_vars

\* C10 witness: process_executor_response has just answered not-found while a
\* session with a turn behind it exists.
C10_Witness ==
    /\ ev.op = "process_executor_response"
    /\ ev.session_id \notin Known
    /\ ev.text = NotFoundText
    /\ \E s \in Known : Session(s).turn_count > 0

\* this step resumed a generate_initial_greeting after its synthesis request
GreetingResumed == \E t \in TaskIds : tasks[t].pc = "tts_greeting" /\ tasks'[t].pc = "idle"

\* C11: generate_initial_greeting on a known session appends exactly one
\* agent-side message, the greeting text it returns, and leaves the session's
\* result, turn counter, call record and every other session unchanged,
\* whether or not the greeting is rendered to audio.
C11_GreetingFrame ==
    [][ (ev'.op = "generate_initial_greeting" /\ ev'.session_id \in Known) =>
          LET s == ev'.session_id
              before == Session(s)
              after == active_sessions'[s]
          IN  /\ DOMAIN active_sessions' = Known
              /\ \A o \in Known \ {s} : active_sessions'[o] = Session(o)
              /\ active_calls' = active_calls
              /\ UNCHANGED <<sms_log, end_call_log, on_call_completed>>
              /\ ev'.ends # "raise"
              /\ ev'.text = GreetingText(before.executor.name, before.order)
              /\ IF GreetingResumed
                 THEN /\ after = before
                      /\ ev'.ret = "reply"
                      /\ \E i \in 1..Len(after.messages) :
                            after.messages[i] = DialogueMessage("assistant", ev'.text)
                 ELSE /\ after = [before EXCEPT !.messages =
                                     Append(@, DialogueMessage("assistant", ev'.text))]
                      /\ ev'.ends = "return" => (ev'.ret = "reply" /\ ~ev'.audio) ]_vars

\* C11 witness: a greeting has just been returned without audio for one of two
\* sessions, and it is the only message of that session.
C11_Witness ==
    /\ ev.op = "generate_initial_greeting" /\ ev.ret = "reply" /\ ~ev.audio
    /\ ev.session_id \in Known
    /\ Cardinality(Known) = 2
    /\ Len(Session(ev.session_id).messages) = 1
    /\ IsGreeting(Session(ev.session_id).messages[1])

\* ------------------------------------------- analyze_response on its own
\* The four responses the specification classifies as examples:
\* "Da, horosho, prinimayu", "Net, ne mogu, zanyat", "A skol'ko e'to budet?",
\* "Nu navernoe".
ExampleAccept ==
    <<"D","a",","," ","h","o","r","o","sh","o",","," ","p","r","i","n","i","m","a","yu">>
ExampleDecline ==
    <<"N","e","t",","," ","n","e"," ","m","o","g","u",","," ","z","a","n","ya","t">>
ExampleQuestion ==
    <<"A"," ","s","k","o","l","'","k","o"," ","e'","t","o"," ","b","u","d","e","t","?">>
ExampleUnclear == <<"N","u"," ","n","a","v","e","r","n","o","e">>

\* what is said in one breath: every keyword, a bare question mark, a word of
\* no list, capitalised and upper-case forms, and the four examples
Utterances ==
    positive_words \cup negative_words \cup question_words
       \cup { <<"?">>, <<"n","u">>, TxtAccept, TxtDecline, <<"N","E"," ","G","O","T","O","V">>,
              ExampleAccept, ExampleDecline, ExampleQuestion, ExampleUnclear }

\* The response under classification is built from at most MaxWords
\* utterances; ev holds the response given to analyze_response and, once it
\* has run, the record it returned.
ClassifyInit ==
    /\ config = [max_dialogue_turns |-> 0, rule_id |-> FALSE]
    /\ active_sessions = [s \in {} |-> None]
    /\ on_call_completed = None
    /\ active_calls = [s \in {} |-> None]
    /\ tel_initialized = FALSE
    /\ tasks = [t \in TaskIds |-> IdleTask]
    /\ sms_log = [s \in {} |-> << >>]
    /\ end_call_log = [s \in {} |-> 0]
    /\ ev = [op |-> "say", response |-> << >>, words |-> 0, analysis |-> << >>]

Say(utterance) ==
    /\ ev.words < MaxWords
    /\ ev' = [op |-> "say",
              response |-> IF ev.words = 0 THEN utterance
                           ELSE ev.response \o <<" ">> \o utterance,
              words |-> ev.words + 1,
              analysis |-> << >>]
    /\ UNCHANGED <<config, active_sessions, on_call_completed, active_calls,
                   tel_initialized, tasks, sms_log, end_call_log>>

AnalyzeResponse ==
    /\ ev.analysis = << >>
    /\ ev' = [ev EXCEPT !.op = "analyze_response",
                        !.analysis = <<analyze_response(ev.response)>>]
    /\ UNCHANGED <<config, active_sessions, on_call_completed, active_calls,
                   tel_initialized, tasks, sms_log, end_call_log>>

ClassifyNext ==
    \/ \E utterance \in Utterances : Say(utterance)
    \/ AnalyzeResponse

SpecClassify == ClassifyInit /\ [][ClassifyNext]_vars

\* the three flags of a response
HasAffirmative(response) == \E w \in positive_words : Contains(w, lower(response))
HasNegative(response) == \E w \in negative_words : Contains(w, lower(response))
HasQuestion(response) ==
    (\E w \in question_words : Contains(w, lower(response))) \/ Contains(<<"?">>, response)

Analysed == ev.op = "analyze_response"

\* C12: the classification is a function of the three flags: question 0.8
\* whenever the question flag is set; else accept 0.9 when affirmative and not
\* negative; else decline 0.9 when negative and not affirmative; else unclear
\* 0.5; and the four examples classify as accept, decline, question, unclear.
C12_ClassificationTable ==
    Analysed =>
       LET r == ev.response
           a == ev.analysis[1]
           p == HasAffirmative(r)
           n == HasNegative(r)
           q == HasQuestion(r)
       IN  /\ q => a = [intent |-> "question", confidence |-> 8]
           /\ (~q /\ p /\ ~n) => a = [intent |-> "accept", confidence |-> 9]
           /\ (~q /\ n /\ ~p) => a = [intent |-> "decline", confidence |-> 9]
           /\ (~q /\ p /\ n) => a = [intent |-> "unclear", confidence |-> 5]
           /\ (~q /\ ~p /\ ~n) => a = [intent |-> "unclear", confidence |-> 5]
           /\ r = ExampleAccept => a = [intent |-> "accept", confidence |-> 9]
           /\ r = ExampleDecline => a = [intent |-> "decline", confidence |-> 9]
           /\ r = ExampleQuestion => a = [intent |-> "question", confidence |-> 8]
           /\ r = ExampleUnclear => a = [intent |-> "unclear", confidence |-> 5]

\* C12 witness: a response with all three flags set has been classified as a
\* question.
C12_Witness ==
    /\ Analysed
    /\ HasAffirmative(ev.response) /\ HasNegative(ev.response) /\ HasQuestion(ev.response)
    /\ ev.analysis[1].intent = "question"

\* C13 as the spec states it: a response with an affirmative and a negative
\* keyword is unclear, and a response with "?" and no keyword is a question.
C13_BothFlagsUnclear ==
    Analysed =>
       LET r == ev.response
           a == ev.analysis[1]
       IN  /\ (HasAffirmative(r) /\ HasNegative(r)) => a.intent = "unclear"
           /\ ( /\ Contains(<<"?">>, r)
                /\ \A w \in positive_words \cup negative_words \cup question_words :
                      ~Contains(w, lower(r)) ) => a.intent = "question"

\* C13 amended: a response with an affirmative and a negative keyword is never
\* accept nor decline: it is unclear when it has no interrogative keyword and
\* no "?", and question when it has one; a response with "?" and no keyword
\* is a question.
C13_BothFlagsNeverDecide ==
    Analysed =>
       LET r == ev.response
           a == ev.analysis[1]
       IN  /\ (HasAffirmative(r) /\ HasNegative(r)) =>
                 a.intent = (IF HasQuestion(r) THEN "question" ELSE "unclear")
           /\ ( /\ Contains(<<"?">>, r)
                /\ \A w \in positive_words \cup negative_words \cup question_words :
                      ~Contains(w, lower(r)) ) => a.intent = "question"

\* C13 witness: "ne gotov", which holds the affirmative "gotov" and the
\* negative "ne gotov", has been classified as unclear.
C13_Witness ==
    /\ Analysed
    /\ ev.response = <<"n","e"," ","g","o","t","o","v">>
    /\ ev.analysis[1].intent = "unclear"

\* ----------------------------------------------- call_executors_for_order
ExecutorLists == UNION { [1..n -> ExecutorInfo] : n \in 0..MaxExecutors }
Widths == -1..MaxWidth

\* what one call_executor of the loop meets: the telephony API cannot be
\* initialised, the backend refuses the call, or the call starts and the
\* knowledge base gives a context or none
BatchOutcomes == {"no_api", "backend", "found", "empty"}

\* the outcomes that differ in the current state: initialisation cannot fail
\* once it has succeeded, and no call starts without a rule id or beyond the
\* bounds of the run
BatchOutcomesNow ==
    (IF tel_initialized THEN {} ELSE {"no_api"}) \cup {"backend"}
       \cup (IF config.rule_id /\ NextCallId <= MaxCalls /\ OpsUsed < MaxOps
             THEN {"found", "empty"} ELSE {})

\* The state call_executors_for_order works on, with the executors it has
\* called and the session ids it has collected, batch by batch.
BatchState ==
    [sessions |-> active_sessions, calls |-> active_calls, tel |-> tel_initialized,
     sms |-> sms_log, endc |-> end_call_log, batches |-> << >>, created |-> << >>]

\* session_id = await self.call_executor(executor, order), and the append of
\* the id when there is one
call_executor_in(st, executor, order, outcome) ==
    LET tel1 == tel_initialize(st.tel, outcome # "no_api")
        ops == OpsUsed + Cardinality(DOMAIN st.sessions) - Cardinality(Known)
        started == start_call_in(st.calls, ops, tel1, executor, outcome \in {"found", "empty"})
        call_info == CHOOSE c \in started : TRUE
        b == Len(st.batches)
        st1 == [st EXCEPT !.tel = tel1, !.batches[b] = Append(@, executor)]
    IN  IF started = {} THEN st1
        ELSE [st1 EXCEPT
                !.calls = Put(st.calls, call_info.call_id, call_info),
                !.sessions = Put(st.sessions, call_info.call_id,
                                 CallSession(call_info.call_id, executor, order,
                                             get_context_for_query(outcome = "found"))),
                !.sms = Put(st.sms, call_info.call_id, << >>),
                !.endc = Put(st.endc, call_info.call_id, 0),
                !.created[b] = Append(@, call_info.call_id)]

\* a loop body that calls every executor of the batch
batch_step_everyone(st, executor, order, outcome) ==
    call_executor_in(st, executor, order, outcome)

\* the body of `for executor in batch`
batch_step(st, executor, order, outcome) ==
    IF ~executor.is_available THEN st
    ELSE call_executor_in(st, executor, order, outcome)

\* `for executor in batch` over executors[j..last]
RECURSIVE run_batch(_, _, _, _, _, _)
run_batch(st, executors, order, outs, j, last) ==
    IF j > last THEN st
    ELSE run_batch(batch_step(st, executors[j], order, outs[j]),
                   executors, order, outs, j + 1, last)

\* an inspection that takes the first session of the batch whatever its result
first_accepted_any(session_ids, sessions) ==
    IF session_ids = << >> THEN << >>
    ELSE <<sessions[Head(session_ids)].executor>>

\* `for session_id in session_ids`: << >> when the loop ends without a
\* return, else the executor returned
RECURSIVE first_accepted(_, _)
first_accepted(session_ids, sessions) ==
    IF session_ids = << >> THEN << >>
    ELSE LET session_id == Head(session_ids)
         IN  IF session_id \in DOMAIN sessions /\ sessions[session_id].result = ACCEPTED
             THEN <<sessions[session_id].executor>>
             ELSE first_accepted(Tail(session_ids), sessions)

\* `for i in range(0, len(executors), concurrent_calls)` from the batch that
\* starts at executors[i] (counted from 1); a negative step gives an empty range
RECURSIVE run_batches(_, _, _, _, _, _)
run_batches(st, executors, order, concurrent_calls, outs, i) ==
    IF concurrent_calls < 0 \/ i > Len(executors) THEN [st |-> st, ret |-> << >>]
    ELSE LET last == IF i + concurrent_calls - 1 < Len(executors)
                     THEN i + concurrent_calls - 1 ELSE Len(executors)
             st0 == [st EXCEPT !.batches = Append(@, << >>), !.created = Append(@, << >>)]
             st1 == run_batch(st0, executors, order, outs, i, last)
             found == first_accepted(st1.created[Len(st1.created)], st1.sessions)
         IN  IF found # << >> THEN [st |-> st1, ret |-> found]
             ELSE run_batches(st1, executors, order, concurrent_calls, outs,
                              i + concurrent_calls)

\* The description of a call_executors_for_order step: its arguments, how it
\* ends, the executor it returns (<< >> for None), and per batch the
\* executors it called and the session ids it collected.
BatchEvent(executors, order, concurrent_calls) ==
    [op |-> "call_executors_for_order", session_id |-> 0, ends |-> "return", ret |-> None,
     text |-> << >>, audio |-> FALSE, completed |-> FALSE, callback |-> None,
     adapters |-> {}, args |-> <<executors, order, concurrent_calls>>,
     executor |-> << >>, batches |-> << >>, created |-> << >>]

\* call_executors_for_order: nothing in it suspends, so it is one step.
\* range() raises ValueError for a step of 0.
CallExecutorsForOrder(executors, order, concurrent_calls) ==
    LET e == BatchEvent(executors, order, concurrent_calls)
    IN  /\ IF concurrent_calls = 0
           THEN /\ ev' = [e EXCEPT !.ends = "raise"]
                /\ UNCHANGED <<active_sessions, active_calls, tel_initialized, sms_log,
                               end_call_log>>
           ELSE \E outs \in { o \in [1..Len(executors) -> BatchOutcomesNow] :
                                \A j \in 1..Len(executors) :
                                   (~executors[j].is_available \/ concurrent_calls < 0)
                                      => o[j] = "backend" } :
                  \E r \in {run_batches(BatchState, executors, order, concurrent_calls,
                                         outs, 1)} :
                      /\ active_sessions' = r.st.sessions
                      /\ active_calls' = r.st.calls
                      /\ tel_initialized' = r.st.tel
                      /\ sms_log' = r.st.sms
                      /\ end_call_log' = r.st.endc
                      /\ ev' = [e EXCEPT !.ret = IF r.ret = << >> THEN None ELSE "executor",
                                         !.executor = r.ret,
                                         !.batches = r.st.batches,
                                         !.created = r.st.created,
                                         !.adapters = IF \A b \in 1..Len(r.st.batches) :
                                                            r.st.batches[b] = << >>
                                                      THEN {}
                                                      ELSE {"knowledge", "telephony"}]
        /\ UNCHANGED <<config, on_call_completed, tasks>>

\* call_executors_for_order among executors who accept in text the sessions
\* that exist
BatchNext ==
    \/ \E executors \in ExecutorLists, order \in OrderInfo, concurrent_calls \in Widths :
          CallExecutorsForOrder(executors, order, concurrent_calls)
    \/ \E session_id \in Known : ProcessExecutorResponse(session_id, NoArg, <<TxtAccept>>)
    \/ \E t \in TaskIds, audio_ok \in BOOLEAN : TtsResponseResume(t, audio_ok)

SpecBatch == Init /\ [][BatchNext]_vars

RECURSIVE Flatten(_)
Flatten(seqs) == IF seqs = << >> THEN << >> ELSE Head(seqs) \o Flatten(Tail(seqs))

\* the entries of the list whose availability flag is set, in list order
Available(executors) == SelectSeq(executors, LAMBDA x : x.is_available)

\* the number of batches range(0, n, width) cuts a list of n entries into
BatchCount(n, width) == IF width < 1 THEN 0 ELSE (n + width - 1) \div width

BatchCalled == ev.op = "call_executors_for_order"
BatchReturned == BatchCalled /\ ev.ends = "return"

C15_OnlyAvailableInBatches ==
    BatchCalled =>
       LET executors == ev.args[1]
           width == ev.args[3]
           n == Len(executors)
           called == Flatten(ev.batches)
           want == Available(executors)
       IN  /\ \A k \in 1..Len(called) : called[k].is_available
           /\ \A s \in Known : Session(s).executor.is_available
           /\ Len(called) <= Len(want) /\ called = SubSeq(want, 1, Len(called))
           /\ Len(ev.batches) <= BatchCount(n, width)
           /\ \A b \in 1..Len(ev.batches) :
                 /\ Len(ev.batches[b]) <= width
                 /\ ev.batches[b] =
                       Available(SubSeq(executors, (b - 1) * width + 1,
                                        IF b * width < n THEN b * width ELSE n))
                 /\ Len(ev.created[b]) <= Len(ev.batches[b])
                 /\ \A k \in 1..Len(ev.created[b]) :
                       \E c \in 1..Len(ev.batches[b]) :
                          Session(ev.created[b][k]).executor = ev.batches[b][c]

\* C15 witness: of a list of an unavailable and an available executor given
\* as one batch, only the available one was called and got a session.
C15_Witness ==
    /\ BatchReturned
    /\ Len(ev.args[1]) = 2
    /\ ~ev.args[1][1].is_available /\ ev.args[1][2].is_available
    /\ ev.args[3] = 2
    /\ ev.batches = << <<ev.args[1][2]>> >>
    /\ Len(ev.created[1]) = 1

\* C16: one callback is registered at a time: a registration replaces the
\* one before it, a session completion invokes the callback registered last,
\* with that session, and none other; with none registered the completion
\* still ends the call and, for an accepted session, attempts the SMS.
C16_LatestCallbackOnly ==
    [][ /\ ev'.op = "set_on_call_completed" =>
              (ev'.args # << >> /\ on_call_completed' = ev'.args[1])
        /\ ev'.op # "set_on_call_completed" => on_call_completed' = on_call_completed
        /\ (ev'.op = "process_executor_response" /\ ev'.completed) =>
              LET s == ev'.session_id
              IN  /\ ev'.callback = on_call_completed
                  /\ on_call_completed # None =>
                        (Len(ev'.seen) = 1 /\ ev'.seen[1].result = active_sessions'[s].result)
                  /\ on_call_completed = None =>
                        /\ ev'.seen = << >> /\ ev'.ends = "return"
                        /\ end_call_log'[s] = end_call_log[s] + 1
                        /\ active_calls'[s].status = "ended"
                        /\ Len(sms_log'[s]) = Len(sms_log[s]) +
                              (IF active_sessions'[s].result = ACCEPTED THEN 1 ELSE 0) ]_vars

\* C16 witness: a completion has just invoked the callback cb2 and returned.
C16_Witness ==
    /\ ev.op = "process_executor_response" /\ ev.completed /\ ev.ends = "return"
    /\ ev.callback = "cb2" /\ on_call_completed = "cb2"

\* C17: in a completion the call is ended first, then the callback runs, then
\* the SMS is attempted: the callback is shown a terminal result and a call
\* record already ended with that result, at a moment when the SMS of this
\* completion is not attempted yet, and no SMS is attempted when the callback
\* does not return.
C17_CompletionOrder ==
    (ev.op = "process_executor_response" /\ ev.completed /\ ev.callback # None) =>
       LET s == ev.session_id
           seen == ev.seen[1]
       IN  /\ seen.result = Session(s).result
           /\ seen.result # IN_PROGRESS
           /\ seen.status = "ended"
           /\ seen.call_result = seen.result
           /\ active_calls[s].status = "ended" /\ active_calls[s].result = seen.result
           /\ Len(sms_log[s]) = seen.sms +
                 (IF ev.ends = "return" /\ seen.result = ACCEPTED THEN 1 ELSE 0)

\* C17 witness: the callback of an accepted session's first completion
\* returned and the SMS followed.
C17_Witness ==
    /\ ev.op = "process_executor_response" /\ ev.completed /\ ev.callback # None
    /\ ev.ends = "return"
    /\ ev.seen[1].result = ACCEPTED /\ ev.seen[1].sms = 0
    /\ Len(sms_log[ev.session_id]) = 1

\* C18: no exception crosses the orchestrator boundary: every public
\* operation ends by returning, whatever the adapters and the registered
\* completion callback do.
C18_NoExceptionEscapes == ev.ends # "raise"

C20_InitFailurePermanent ==
    [][ (/\ ev.op = "call_executor" /\ ev.ret = None /\ ~tel_initialized
         /\ ev'.op = "call_executor") =>
           (~tel_initialized' /\ ev'.ret = None) ]_vars

\* ------------------------------------------------------------- get_session
\* a lookup that no longer shows a session that is over
get_session_live(session_id) ==
    IF session_id \in DOMAIN active_sessions
          /\ active_sessions[session_id].result = IN_PROGRESS
    THEN <<active_sessions[session_id]>> ELSE << >>

\* AIAgent.get_session: the session as <<session>>, or << >> for None
get_session(session_id) ==
    IF session_id \in DOMAIN active_sessions
    THEN <<active_sessions[session_id]>> ELSE << >>

\* C21: no operation removes a session from the mapping, and a session that
\* was completed is still given by get_session, with a terminal result.
C21_SessionsNeverRemoved ==
    [][ /\ Known \subseteq DOMAIN active_sessions'
        /\ \A s \in DOMAIN active_sessions' :
              end_call_log'[s] >= 1 =>
                 /\ get_session(s)' = <<active_sessions'[s]>>
                 /\ get_session(s)'[1].result \in {ACCEPTED, DECLINED} ]_vars

\* C21 witness: a session was completed and a later call_executor created
\* another one; the completed session is still in the mapping.
C21_Witness ==
    /\ ev.op = "call_executor" /\ ev.ret = "call_id"
    /\ \E s \in Known :
          /\ s # ev.session_id
          /\ end_call_log[s] >= 1
          /\ get_session(s) # << >>
          /\ get_session(s)[1].result = ACCEPTED

\* CallInfo.status: "initiated", "ringing", "connected", "ended", in the order
\* a call goes through them
StatusRank(status) ==
    IF status = "initiated" THEN 1
    ELSE IF status \in {"ringing", "connected"} THEN 2
    ELSE 3

\* C22: a call record is created in status initiated by a step that started a
\* call, changes only in steps that went through the telephony adapter, never
\* leaves the table, only moves forward in status, stays ended once ended, and
\* is ended after a completion.
C22_StatusMonotone ==
    [][ /\ DOMAIN active_calls \subseteq DOMAIN active_calls'
        /\ \A c \in DOMAIN active_calls' \ DOMAIN active_calls :
              /\ active_calls'[c].status = "initiated"
              /\ ev'.op = "call_executor" /\ "telephony" \in ev'.adapters
        /\ \A c \in DOMAIN active_calls :
              /\ StatusRank(active_calls'[c].status) >= StatusRank(active_calls[c].status)
              /\ active_calls[c].status = "ended" => active_calls'[c].status = "ended"
              /\ active_calls'[c] # active_calls[c] =>
                    /\ "telephony" \in ev'.adapters
                    /\ active_calls'[c].status = "ended"
        /\ (ev'.op = "process_executor_response" /\ ev'.completed) =>
              active_calls'[ev'.session_id].status = "ended" ]_vars

\* C22 witness: end_call has run twice on the same record, which is ended.
C22_Witness ==
    \E c \in DOMAIN active_calls :
        end_call_log[c] = 2 /\ active_calls[c].status = "ended"

\* the sequence a is a prefix of the sequence b
IsPrefix(a, b) == Len(a) <= Len(b) /\ SubSeq(b, 1, Len(a)) = a

\* C23: a session's message history is append-only: in every step the history
\* a session had is a prefix of the history it has afterwards.
C23_HistoryAppendOnly ==
    [][ \A s \in Known :
          IsPrefix(Session(s).messages, active_sessions'[s].messages) ]_vars

\* C23 witness: a turn has just extended a history that already held the
\* greeting.
C23_Witness ==
    /\ ev.op = "process_executor_response" /\ ev.session_id \in Known
    /\ LET messages == Session(ev.session_id).messages
       IN  /\ Len(messages) = 3
           /\ IsGreeting(messages[1])
           /\ messages[2].role = "user"
           /\ messages[3].role = "assistant"

\* ------------------------------------------- operations on two sessions
\* Two sessions exist, as two successful call_executor calls leave them (one
\* with a knowledge context, one without); what follows is every interleaving
\* of at most MaxPairOps turns and greetings on them.
PairExecutor(id) == CHOOSE x \in ExecutorInfo : x.executor_id = id
PairOrder(id) == CHOOSE x \in OrderInfo : x.order_id = id

PairInit ==
    /\ config \in [max_dialogue_turns : {0, MaxConfigTurns}, rule_id : {TRUE}]
    /\ active_sessions =
          Put(Put([s \in {} |-> None],
                  1, CallSession(1, PairExecutor("E1"), PairOrder("ORD-1"),
                                 get_context_for_query(TRUE))),
              2, CallSession(2, PairExecutor("E2"), PairOrder("ORD-2"),
                             get_context_for_query(FALSE)))
    /\ on_call_completed = None
    /\ active_calls = Put(Put([s \in {} |-> None], 1, CallInfo(1, PairExecutor("E1"))),
                          2, CallInfo(2, PairExecutor("E2")))
    /\ tel_initialized = TRUE
    /\ tasks = [t \in TaskIds |-> IdleTask]
    /\ sms_log = [s \in {1, 2} |-> << >>]
    /\ end_call_log = [s \in {1, 2} |-> 0]
    /\ ev = NoEvent

\* the operations of a run on the pair: the two sessions and MaxPairOps more
PairBudget == 2 + MaxPairOps

PairNext ==
    \/ \E session_id \in Known, input \in Inputs :
          ProcessExecutorResponseWithin(PairBudget, session_id, input[1], input[2])
    \/ \E t \in TaskIds, transcription \in SttOutcomes : SttResume(t, transcription)
    \/ \E t \in TaskIds, audio_ok \in BOOLEAN : TtsResponseResume(t, audio_ok)
    \/ \E session_id \in Known :
          /\ GreetWithin(PairBudget, session_id)
    \/ \E t \in TaskIds, audio_ok \in BOOLEAN : TtsGreetingResume(t, audio_ok)

SpecPair == PairInit /\ [][PairNext]_vars

\* What one operation run on a session alone can leave of it: nothing changed
\* (a resumption), one turn, or one greeting.
AloneOutcomes(session) ==
    {session}
       \cup {run_turn(session, x, o).session : x \in Texts, o \in ChatOutcomes}
       \cup {[session EXCEPT !.messages =
                 Append(@, DialogueMessage("assistant",
                                           GreetingText(session.executor.name,
                                                        session.order)))]}

\* The result and the counter a session has after the calls recorded in its
\* own history were run on it alone, one after the other: the first k
\* messages replayed.
RECURSIVE Replay(_, _)
Replay(messages, k) ==
    IF k = 0 THEN [result |-> IN_PROGRESS, turn_count |-> 0]
    ELSE LET before == Replay(messages, k - 1)
         IN  IF messages[k].role # "user" THEN before
             ELSE LET n == before.turn_count + 1
                      branch == decide(analyze_response(messages[k].content).intent, n)
                  IN  [result |-> IF branch = "accept" THEN ACCEPTED
                                  ELSE IF branch \in {"decline", "budget"} THEN DECLINED
                                  ELSE before.result,
                       turn_count |-> n]

\* C24: operations on different sessions do not interfere: a step of an
\* operation on one session leaves every other session, its call record and
\* its logs as they were, changes its own session as the operation run alone
\* would, and the result and counter of every session are those its own
\* history gives when replayed alone.
C24_NoInterference ==
    [][ LET s == ev'.session_id
        IN  /\ s \in Known
            /\ \A other \in Known \ {s} :
                  /\ active_sessions'[other] = active_sessions[other]
                  /\ active_calls'[other] = active_calls[other]
                  /\ sms_log'[other] = sms_log[other]
                  /\ end_call_log'[other] = end_call_log[other]
            /\ active_sessions'[s] \in AloneOutcomes(active_sessions[s])
            /\ \A x \in Known :
                  LET after == active_sessions'[x]
                      replayed == Replay(after.messages, Len(after.messages))
                  IN  /\ after.result = replayed.result
                      /\ after.turn_count = replayed.turn_count ]_vars

\* C24 witness: a turn on session 2 ran from start to end while a turn on
\* session 1 was waiting for its audio.
C24_Witness ==
    /\ ev.op = "process_executor_response" /\ ev.session_id = 2 /\ ev.ends = "return"
    /\ Session(2).turn_count = 1
    /\ Session(1).turn_count = 1
    /\ \E t \in TaskIds : tasks[t].pc = "tts_response" /\ tasks[t].session_id = 1

\* the positions of the executor's messages in a history
UserTurns(messages) == {i \in 1..Len(messages) : messages[i].role = "user"}

\* C25: end to end, when the turns of a session are processed one after the
\* other, its budget is at least n, the first n-1 responses were classified
\* question or unclear and the n-th is classified accept: the session was in
\* progress until then with no end-call, and the n-th process_executor_response
\* returns with the result accepted, the counter at n, exactly one SMS attempt
\* carrying the order identifier and exactly one end-call.
C25_EndToEnd ==
    [][ \A s \in Known :
          LET after == active_sessions'[s]
          IN  (/\ TurnStep(s) /\ ~TurnPending(s)
               /\ ev'.ends \in {"return", "raise"}
               /\ \A i \in UserTurns(Session(s).messages) :
                     analyze_response(Session(s).messages[i].content).intent
                        \in {"question", "unclear"}
               /\ analyze_response(TurnInput(s)).intent = "accept"
               /\ after.turn_count <= config.max_dialogue_turns) =>
                 /\ Session(s).result = IN_PROGRESS
                 /\ end_call_log[s] = 0
                 /\ after.result = ACCEPTED
                 /\ after.turn_count = Cardinality(UserTurns(after.messages))
                 /\ ev'.ends = "return"
                 /\ end_call_log'[s] = 1
                 /\ Len(sms_log'[s]) = 1
                 /\ sms_log'[s][1].message = SmsText(after.order)
                 /\ after.order.order_id \in
                       {sms_log'[s][1].message[k] : k \in 1..Len(sms_log'[s][1].message)} ]_vars

\* ------------------------------------------------- get_context_for_query
\* A document is modelled by the length of its content, and the context
\* string by the parts joined into it: for each part the document it comes
\* from, the number of characters taken from it, and whether "..." follows.
MeaningfulRemainder == 100
EllipsisLength == 3
SeparatorLength == 2

\* the content lengths of the documents a search may return
DocLengths == {0, 60, 150}
\* the values max_context_length is given
ContextLengths == {0, 120, 210, 300}

\* The loop of get_context_for_query from document i on: the parts appended
\* after `parts` when current_length characters are already counted.
RECURSIVE context_parts(_, _, _, _, _)
context_parts(documents, max_context_length, i, parts, current_length) ==
    IF i > Len(documents) THEN parts
    ELSE IF current_length + documents[i] > max_context_length
    THEN LET remaining == max_context_length - current_length
         IN  IF remaining > MeaningfulRemainder
             THEN Append(parts, [doc |-> i, chars |-> remaining, ellipsis |-> TRUE])
             ELSE parts
    ELSE context_parts(documents, max_context_length, i + 1,
                       Append(parts, [doc |-> i, chars |-> documents[i],
                                      ellipsis |-> FALSE]),
                       current_length + documents[i])

\* the parts of the string get_context_for_query returns for the documents
\* found, none for the empty string
build_context(documents, max_context_length) ==
    IF documents = << >> THEN << >>
    ELSE context_parts(documents, max_context_length, 1, << >>, 0)

RECURSIVE PartsLength(_)
PartsLength(parts) ==
    IF parts = << >> THEN 0
    ELSE LET last == parts[Len(parts)]
         IN  PartsLength(SubSeq(parts, 1, Len(parts) - 1)) + last.chars
                + (IF last.ellipsis THEN EllipsisLength ELSE 0)

\* len("\n\n".join(context_parts))
context_length(parts) ==
    IF parts = << >> THEN 0
    ELSE PartsLength(parts) + SeparatorLength * (Len(parts) - 1)

\* ev holds the documents the search returns, the length budget, and, once
\* get_context_for_query has run, the parts of the string it returned.
ContextInit ==
    /\ config = [max_dialogue_turns |-> 0, rule_id |-> FALSE]
    /\ active_sessions = [s \in {} |-> None]
    /\ on_call_completed = None
    /\ active_calls = [s \in {} |-> None]
    /\ tel_initialized = FALSE
    /\ tasks = [t \in TaskIds |-> IdleTask]
    /\ sms_log = [s \in {} |-> << >>]
    /\ end_call_log = [s \in {} |-> 0]
    /\ \E max_context_length \in ContextLengths :
          ev = [op |-> "search", documents |-> << >>,
                max_context_length |-> max_context_length, context |-> << >>]

\* the search returns one more document
Retrieve(content_length) ==
    /\ ev.op = "search"
    /\ Len(ev.documents) < MaxDocs
    /\ ev' = [ev EXCEPT !.documents = Append(@, content_length)]
    /\ UNCHANGED <<config, active_sessions, on_call_completed, active_calls,
                   tel_initialized, tasks, sms_log, end_call_log>>

GetContextForQuery ==
    /\ ev.op = "search"
    /\ ev' = [ev EXCEPT !.op = "get_context_for_query",
                        !.context = build_context(ev.documents, ev.max_context_length)]
    /\ UNCHANGED <<config, active_sessions, on_call_completed, active_calls,
                   tel_initialized, tasks, sms_log, end_call_log>>

ContextNext ==
    \/ \E content_length \in DocLengths : Retrieve(content_length)
    \/ GetContextForQuery

SpecContext == ContextInit /\ [][ContextNext]_vars

\* C26: the string get_context_for_query returns is never longer than
\* max_context_length, takes the documents in retrieval order, and is empty
\* when no document was found.
C26_ContextWithinBudget ==
    ev.op = "get_context_for_query" =>
        /\ context_length(ev.context) <= ev.max_context_length
        /\ \A k \in 1..Len(ev.context) : ev.context[k].doc = k
        /\ ev.documents = << >> => ev.context = << >>

\* no coroutine is suspended: no operation is in progress
Quiescent == \A t \in TaskIds : tasks[t].pc = "idle"

\* max(1, max_dialogue_turns)
LastTurn == IF config.max_dialogue_turns > 1 THEN config.max_dialogue_turns ELSE 1

\* C27: a session in progress has its counter at 0 or strictly below
\* max_dialogue_turns, so a session whose counter has reached
\* max(1, max_dialogue_turns) is terminal; this holds in every state, also
\* while operations are in progress.
C27_InProgressBelowBudget ==
    \A s \in Known :
        /\ Session(s).result = IN_PROGRESS =>
              (Session(s).turn_count = 0
                  \/ Session(s).turn_count < config.max_dialogue_turns)
        /\ Session(s).turn_count >= LastTurn => Terminal(s)

\* C27 witness: with a budget of 2, a session that was asked two questions is
\* declined at its second turn, and no operation is in progress.
C27_Witness ==
    /\ Quiescent
    /\ config.max_dialogue_turns = 2
    /\ \E s \in Known :
          /\ Session(s).turn_count = 2
          /\ Session(s).result = DECLINED
          /\ Len(Session(s).messages) = 4
          /\ Session(s).messages[1].content = TxtQuestion
          /\ Session(s).messages[3].content = TxtQuestion

C29_SessionMatchesCallRecord ==
    Quiescent =>
       \A s \in Known :
          /\ s \in DOMAIN active_calls
          /\ Terminal(s) =>
                /\ active_calls[s].status = "ended"
                /\ active_calls[s].result = Session(s).result
          /\ ~Terminal(s) => active_calls[s].status # "ended"

\* C29 witness: with no operation in progress, one session is declined with
\* its call record ended and tagged declined, another is in progress with
\* its call record initiated.
C29_Witness ==
    /\ Quiescent
    /\ \E s \in Known, other \in Known :
          /\ Session(s).result = DECLINED
          /\ active_calls[s].status = "ended"
          /\ active_calls[s].result = DECLINED
          /\ Session(other).result = IN_PROGRESS
          /\ active_calls[other].status = "initiated"

====
